---- MODULE Spec2Model ----
(***************************************************************************)
(* json_to_iceberg: nested JSON -> flat records -> table -> null-type      *)
(* resolution -> Arrow -> Iceberg sink.                                    *)
(*                                                                         *)
(* Four specifications over one set of variables:                          *)
(*   SpecSchema   schema.py   _resolve_dtype / resolve_null_types          *)
(*   SpecFlatten  flatten.py  _detect_records / flatten_record             *)
(*   Spec         writer.py   write_to_iceberg against the catalog         *)
(*   SpecIngest   cli.py      _ingest: load_and_flatten, write_to_iceberg  *)
(***************************************************************************)
EXTENDS Integers, Sequences, FiniteSets, TLC

VARIABLES
    pc,         \* position of the running call
    dtype,      \* SpecSchema: the type tree handed to _resolve_dtype
    default,    \* the default type replacing Null
    resolved,   \* SpecSchema: results of the successive _resolve_dtype calls
    df,         \* the table handed to resolve_null_types / write_to_iceberg
    out,        \* SpecSchema: results of the successive resolve_null_types calls
    raw,        \* SpecFlatten: the parsed JSON root
    separator,  \* SpecFlatten: the flatten-key separator
    records,    \* SpecFlatten: the detected record list
    flat,       \* SpecFlatten: the flat records built so far
    error,      \* SpecFlatten: the exception load_and_flatten raised, if any
    mode,       \* Spec: "overwrite" or "append"
    arrow,      \* Spec: the Arrow table built from the resolved table
    sink,       \* Spec: the remote state (namespace, table, content, schema)
    prior,      \* Spec: the remote state when the invocation started
    ops         \* Spec: the sink calls issued so far, with their outcomes

vars == <<pc, dtype, default, resolved, df, out, raw, separator, records, flat,
          error, mode, arrow, sink, prior, ops>>

schemaVars == <<dtype, default, resolved, df, out>>
flattenVars == <<raw, separator, records, flat, error>>
writerVars == <<mode, arrow, sink, prior, ops>>

----------------------------------------------------------------------------
(* Bounds of the model. *)

MaxNodes == 4        \* nodes of a type tree handed to _resolve_dtype
MaxTableNodes == 3   \* type nodes of a table, summed over its columns
MaxRows == 1         \* rows of a table
MaxJsonNodes == 3    \* nodes of a JSON root drawn by size
MaxEntries == 2      \* entries of a wrapper mapping handed to _detect_records

----------------------------------------------------------------------------
(* Polars data types (pl.DataType) as tagged trees.  Array is a nested     *)
(* polars type that _resolve_dtype has no branch for.                      *)

ScalarKinds == {"Utf8", "Int64", "Datetime_ns"}

NullType == [k |-> "Null"]
Scalar(kind) == [k |-> "Scalar", kind |-> kind]
List(inner) == [k |-> "List", inner |-> inner]
Array(elem) == [k |-> "Array", elem |-> elem]
Field(name, t) == [name |-> name, dtype |-> t]
Struct(fields) == [k |-> "Struct", fields |-> fields]

FieldNames == <<"a", "b", "c", "d">>
ColNames == <<"x", "y", "z", "w">>

Leaves == {NullType} \cup {Scalar(kd) : kd \in ScalarKinds}

\* The larger of the two bounds on type trees.
TypeNodes == IF MaxNodes > MaxTableNodes THEN MaxNodes ELSE MaxTableNodes

RECURSIVE TypeLevels(_, _, _)
\* <<trees, seqs>>: trees[m] the type trees of exactly m nodes, for m up to
\* TypeNodes, and seqs[m] the sequences of type trees whose node counts sum to
\* m, for the m a struct or a table needs, built from the levels below n.
TypeLevels(n, trees, seqs) ==
    IF n > TypeNodes THEN <<trees, seqs>>
    ELSE LET level ==
                IF n = 1 THEN Leaves
                ELSE {List(t) : t \in trees[n - 1]} \cup
                     {Array(t) : t \in trees[n - 1]} \cup
                     {Struct([i \in 1..Len(ts) |-> Field(FieldNames[i], ts[i])])
                        : ts \in {q \in seqs[n - 1] : Len(q) <= Len(FieldNames)}}
             levelSeqs ==
                IF n > MaxTableNodes /\ n >= MaxNodes THEN {}
                ELSE {<<t>> : t \in level} \cup
                     UNION {{<<t>> \o rest : t \in trees[i], rest \in seqs[n - i]}
                             : i \in 1..(n - 1)}
         IN TypeLevels(n + 1, Append(trees, level), Append(seqs, levelSeqs))

TypeTable == TypeLevels(1, <<>>, <<>>)
TreesOfSize(n) == TypeTable[1][n]
TypeSeqs(n) == TypeTable[2][n]

Trees == UNION {TreesOfSize(n) : n \in 1..MaxNodes}

\* The defaults a caller passes: concrete types.
Defaults == {Scalar(kd) : kd \in ScalarKinds} \cup {List(Scalar("Int64"))}

\* _DEFAULT_TYPE = pl.Utf8
DEFAULT_TYPE == Scalar("Utf8")

----------------------------------------------------------------------------
(* schema.py: _resolve_dtype *)

RECURSIVE resolve_dtype(_, _)

\* Variant: the Struct branch is missing, a struct is returned as it is.
resolve_dtype_no_struct(t, d) ==
    IF t = NullType THEN d
    ELSE IF t.k = "List" THEN List(resolve_dtype(t.inner, d))
    ELSE t

\* Variant: the Struct branch walks the fields in reverse.
resolve_dtype_reversed(t, d) ==
    IF t = NullType THEN d
    ELSE IF t.k = "List" THEN List(resolve_dtype(t.inner, d))
    ELSE IF t.k = "Struct"
        THEN Struct([i \in 1..Len(t.fields) |->
                Field(t.fields[Len(t.fields) + 1 - i].name,
                      resolve_dtype(t.fields[Len(t.fields) + 1 - i].dtype, d))])
    ELSE t

resolve_dtype(t, d) ==
    IF t = NullType THEN d
    ELSE IF t.k = "List" THEN List(resolve_dtype(t.inner, d))
    ELSE IF t.k = "Struct"
        THEN Struct([i \in 1..Len(t.fields) |->
                Field(t.fields[i].name, resolve_dtype(t.fields[i].dtype, d))])
    ELSE t

----------------------------------------------------------------------------
(* Tables (pl.DataFrame): a sequence of named, typed columns of row values. *)

NULL == [k |-> "null"]
IntV(i) == [k |-> "int", i |-> i]
StrV(s) == [k |-> "str", s |-> s]
TsV(ns) == [k |-> "ts", ns |-> ns]
ListV(items) == [k |-> "list", items |-> items]
StructV(vals) == [k |-> "struct", vals |-> vals]

SampleOf(kind) ==
    IF kind = "Utf8" THEN StrV("s")
    ELSE IF kind = "Int64" THEN IntV(7)
    ELSE TsV(2000)

RECURSIVE Sample(_)
\* A row value of type t with no null in it but those of Null-typed parts.
Sample(t) ==
    IF t.k = "Null" THEN NULL
    ELSE IF t.k = "Scalar" THEN SampleOf(t.kind)
    ELSE IF t.k = "List" THEN ListV(<<Sample(t.inner)>>)
    ELSE IF t.k = "Array" THEN ListV(<<Sample(t.elem)>>)
    ELSE StructV([i \in 1..Len(t.fields) |-> Sample(t.fields[i].dtype)])

Column(name, t, values) == [name |-> name, dtype |-> t, values |-> values]

\* The table of the column types ts whose row r is all null or all sample
\* values, as rowKinds[r] says.
TableOf(ts, rowKinds) ==
    [i \in 1..Len(ts) |->
        Column(ColNames[i], ts[i],
               [r \in 1..Len(rowKinds) |->
                    IF rowKinds[r] = "nulls" THEN NULL ELSE Sample(ts[i])])]

Tables ==
    {TableOf(ts, rowKinds)
        : ts \in UNION {TypeSeqs(m) : m \in 1..MaxTableNodes},
          rowKinds \in UNION {[1..n -> {"nulls", "values"}] : n \in 0..MaxRows}}

Height(t) == IF t = <<>> THEN 0 ELSE Len(t[1].values)
Schema(t) == [i \in 1..Len(t) |-> Field(t[i].name, t[i].dtype)]

RECURSIVE Cast(_, _, _)
\* pl.col(name).cast(to): the value v of type from, as a value of type to.
Cast(v, from, to) ==
    IF v = NULL \/ from = to THEN v
    ELSE IF from.k = "Null" THEN NULL
    ELSE IF from.k = "List" /\ to.k = "List"
        THEN ListV([i \in 1..Len(v.items) |-> Cast(v.items[i], from.inner, to.inner)])
    ELSE IF from.k = "Array" /\ to.k = "Array"
        THEN ListV([i \in 1..Len(v.items) |-> Cast(v.items[i], from.elem, to.elem)])
    ELSE IF from.k = "Struct" /\ to.k = "Struct"
        THEN StructV([i \in 1..Len(v.vals) |->
                Cast(v.vals[i], from.fields[i].dtype, to.fields[i].dtype)])
    ELSE [k |-> "converted", to |-> to, of |-> v]

\* for name, dtype in df.schema.items(): the columns whose resolved type differs.
Casts(t, d) ==
    SelectSeq([i \in 1..Len(t) |-> Field(t[i].name, resolve_dtype(t[i].dtype, d))],
              LAMBDA c : \E i \in 1..Len(t) : t[i].name = c.name /\ t[i].dtype # c.dtype)

\* df.with_columns([pl.col(name).cast(dtype) ...]): each cast column replaces
\* the column of its name, in place.
with_columns(t, casts) ==
    [i \in 1..Len(t) |->
        IF \E j \in 1..Len(casts) : casts[j].name = t[i].name
        THEN LET c == casts[CHOOSE j \in 1..Len(casts) : casts[j].name = t[i].name]
             IN Column(t[i].name, c.dtype,
                       [r \in 1..Len(t[i].values) |-> Cast(t[i].values[r], t[i].dtype, c.dtype)])
        ELSE t[i]]

resolve_null_types(t, d) ==
    LET casts == Casts(t, d)
    IN IF casts = <<>> THEN t ELSE with_columns(t, casts)

----------------------------------------------------------------------------
(* SpecSchema: the resolver applied, and applied again to its own result,  *)
(* to one type tree or to one table.                                       *)

NoTable == <<>>

InitSchema ==
    /\ default \in Defaults
    /\ \/ pc = "tree" /\ dtype \in Trees /\ df = NoTable
       \/ pc = "table" /\ dtype = NullType /\ df \in Tables
    /\ resolved = <<>>
    /\ out = <<>>
    /\ raw = NULL /\ separator = "." /\ records = <<>> /\ flat = <<>> /\ error = NULL
    /\ mode = "overwrite" /\ arrow = NoTable /\ sink = NULL /\ prior = NULL /\ ops = <<>>

ResolveDtype ==
    /\ pc = "tree"
    /\ resolved' = <<resolve_dtype(dtype, default)>>
    /\ pc' = "tree_resolved"
    /\ UNCHANGED <<dtype, default, df, out, flattenVars, writerVars>>

ResolveDtypeAgain ==
    /\ pc = "tree_resolved"
    /\ resolved' = Append(resolved, resolve_dtype(resolved[1], default))
    /\ pc' = "tree_done"
    /\ UNCHANGED <<dtype, default, df, out, flattenVars, writerVars>>

ResolveNullTypes ==
    /\ pc = "table"
    /\ out' = <<[casts |-> Casts(df, default), df |-> resolve_null_types(df, default)]>>
    /\ pc' = "table_resolved"
    /\ UNCHANGED <<dtype, default, resolved, df, flattenVars, writerVars>>

ResolveNullTypesAgain ==
    /\ pc = "table_resolved"
    /\ out' = Append(out, [casts |-> Casts(out[1].df, default),
                           df |-> resolve_null_types(out[1].df, default)])
    /\ pc' = "table_done"
    /\ UNCHANGED <<dtype, default, resolved, df, flattenVars, writerVars>>

NextSchema ==
    \/ ResolveDtype
    \/ ResolveDtypeAgain
    \/ ResolveNullTypes
    \/ ResolveNullTypesAgain

SpecSchema == InitSchema /\ [][NextSchema]_vars

----------------------------------------------------------------------------
(* Parsed JSON values (json.load) as tagged trees.  A mapping is the       *)
(* sequence of its entries, in insertion order, with distinct keys.        *)

JNull == [j |-> "null"]
JNum(n) == [j |-> "num", n |-> n]
JSeq(items) == [j |-> "seq", items |-> items]
JEntry(key, value) == [key |-> key, value |-> value]
JMap(entries) == [j |-> "map", entries |-> entries]

Keys == {"a", "b", "a.b"}
Separators == {".", "__"}

KeySeqs(m) == {ks \in [1..m -> Keys] : \A i, i2 \in 1..m : ks[i] = ks[i2] => i = i2}

RECURSIVE JsonLevels(_, _, _)
\* <<values, seqs>>: values[m] the JSON values of exactly m nodes, for m up to
\* MaxJsonNodes, and seqs[m] the sequences of JSON values whose node counts sum
\* to m, for the m a value needs, built from the levels below n.
JsonLevels(n, values, seqs) ==
    IF n > MaxJsonNodes THEN <<values, seqs>>
    ELSE LET level ==
                IF n = 1 THEN {JNull, JNum(1), JSeq(<<>>), JMap(<<>>)}
                ELSE {JSeq(vs) : vs \in seqs[n - 1]} \cup
                     UNION {{JMap([i \in 1..m |-> JEntry(ks[i], vs[i])])
                                : ks \in KeySeqs(m),
                                  vs \in {q \in seqs[n - 1] : Len(q) = m}}
                            : m \in 1..Cardinality(Keys)}
             levelSeqs ==
                IF n = MaxJsonNodes THEN {}
                ELSE {<<v>> : v \in level} \cup
                     UNION {{<<v>> \o rest : v \in values[i], rest \in seqs[n - i]}
                             : i \in 1..(n - 1)}
         IN JsonLevels(n + 1, Append(values, level), Append(seqs, levelSeqs))

JsonTable == JsonLevels(1, <<>>, <<>>)
JsonOfSize(n) == JsonTable[1][n]

\* The values of a wrapper mapping such as {"data": [...], "meta": ...}.
WrapperValues ==
    {JNull, JNum(1),
     JMap(<<>>), JMap(<<JEntry("b", JNum(1))>>),
     JMap(<<JEntry("a", JMap(<<JEntry("b", JNull)>>))>>),
     JMap(<<JEntry("a", JSeq(<<JMap(<<>>)>>))>>),
     JSeq(<<>>), JSeq(<<JNum(1)>>), JSeq(<<JNum(1), JMap(<<>>)>>),
     JSeq(<<JMap(<<>>)>>), JSeq(<<JMap(<<JEntry("a", JNum(1))>>), JNull>>)}

Wrappers ==
    UNION {{JMap([i \in 1..m |-> JEntry(ks[i], vs[i])])
                : ks \in KeySeqs(m), vs \in [1..m -> WrapperValues]}
            : m \in 1..MaxEntries}

Roots == UNION {JsonOfSize(n) : n \in 1..MaxJsonNodes} \cup Wrappers

----------------------------------------------------------------------------
(* flatten.py *)

\* flat[key] = value on an insertion-ordered dict.
DictSet(d, key, value) ==
    IF \E i \in 1..Len(d) : d[i].key = key
    THEN [i \in 1..Len(d) |-> IF d[i].key = key THEN JEntry(key, value) ELSE d[i]]
    ELSE Append(d, JEntry(key, value))

RECURSIVE DictUpdate(_, _)
\* flat.update(other)
DictUpdate(d, other) ==
    IF other = <<>> THEN d
    ELSE DictUpdate(DictSet(d, other[1].key, other[1].value), Tail(other))

RECURSIVE FlattenItems(_, _, _, _)
\* The loop of flatten_record over record.items(), from the flat dict so far.
FlattenItems(items, sep, prefix, flatSoFar) ==
    IF items = <<>> THEN flatSoFar
    ELSE LET key == items[1].key
             value == items[1].value
             full_key == IF prefix # "" THEN prefix \o sep \o key ELSE key
         IN FlattenItems(Tail(items), sep, prefix,
                IF value.j = "map"
                THEN DictUpdate(flatSoFar, FlattenItems(value.entries, sep, full_key, <<>>))
                ELSE DictSet(flatSoFar, full_key, value))

flatten_record(record, sep, prefix) == FlattenItems(record.entries, sep, prefix, <<>>)

\* isinstance(value, list) and value and isinstance(value[0], dict)
IsRecordList(value) ==
    value.j = "seq" /\ value.items # <<>> /\ value.items[1].j = "map"

\* Variant: the last array-of-objects value wins.
detect_records_last(r) ==
    IF r.j = "seq" THEN r.items
    ELSE LET hits == {i \in 1..Len(r.entries) : IsRecordList(r.entries[i].value)}
         IN IF hits # {}
            THEN r.entries[CHOOSE i \in hits : \A i2 \in hits : i2 <= i].value.items
            ELSE <<r>>

\* _detect_records on a list or dict root.
detect_records(r) ==
    IF r.j = "seq" THEN r.items
    ELSE LET hits == {i \in 1..Len(r.entries) : IsRecordList(r.entries[i].value)}
         IN IF hits # {}
            THEN r.entries[CHOOSE i \in hits : \A i2 \in hits : i <= i2].value.items
            ELSE <<r>>

\* type(raw).__name__
TypeName(r) == IF r.j = "null" THEN "NoneType" ELSE IF r.j = "num" THEN "int"
               ELSE IF r.j = "seq" THEN "list" ELSE "dict"

----------------------------------------------------------------------------
(* SpecFlatten: load_and_flatten on one parsed root. *)

InitFlatten ==
    /\ pc = "load"
    /\ raw \in Roots
    /\ separator \in Separators
    /\ records = <<>>
    /\ flat = <<>>
    /\ error = NULL
    /\ dtype = NullType /\ default = DEFAULT_TYPE /\ resolved = <<>>
    /\ df = NoTable /\ out = <<>>
    /\ mode = "overwrite" /\ arrow = NoTable /\ sink = NULL /\ prior = NULL /\ ops = <<>>

Raised(type, message) == [type |-> type, message |-> message]

\* Variant: the detector's error is logged and the pipeline goes on with no
\* records.
LoadDetectFailsAndGoesOn ==
    /\ pc = "load"
    /\ raw.j \notin {"seq", "map"}
    /\ error' = Raised("ValueError", <<"Unexpected JSON root type: ", TypeName(raw)>>)
    /\ pc' = "flattened"
    /\ UNCHANGED <<raw, separator, records, flat, schemaVars, writerVars>>

\* _detect_records raises ValueError: the root is neither a list nor a dict.
LoadDetectFails ==
    /\ pc = "load"
    /\ raw.j \notin {"seq", "map"}
    /\ error' = Raised("ValueError", <<"Unexpected JSON root type: ", TypeName(raw)>>)
    /\ pc' = "load_failed"
    /\ UNCHANGED <<raw, separator, records, flat, schemaVars, writerVars>>

\* flatten_record raises on the first record that is no dict: it has no items().
LoadFlattenFails ==
    /\ pc = "load"
    /\ raw.j \in {"seq", "map"}
    /\ LET recs == detect_records(raw)
           bad == {i \in 1..Len(recs) : recs[i].j # "map"}
       IN /\ bad # {}
          /\ records' = recs
          /\ error' = Raised("AttributeError",
                <<TypeName(recs[CHOOSE i \in bad : \A i2 \in bad : i <= i2]),
                  " object has no attribute 'items'">>)
    /\ pc' = "load_failed"
    /\ UNCHANGED <<raw, separator, flat, schemaVars, writerVars>>

LoadAndFlatten ==
    /\ pc = "load"
    /\ raw.j \in {"seq", "map"}
    /\ LET recs == detect_records(raw)
       IN /\ \A i \in 1..Len(recs) : recs[i].j = "map"
          /\ records' = recs
          /\ flat' = [i \in 1..Len(recs) |-> flatten_record(recs[i], separator, "")]
    /\ pc' = "flattened"
    /\ UNCHANGED <<raw, separator, error, schemaVars, writerVars>>

NextFlatten ==
    \/ LoadDetectFails
    \/ LoadFlattenFails
    \/ LoadAndFlatten

SpecFlatten == InitFlatten /\ [][NextFlatten]_vars

----------------------------------------------------------------------------
(* schema.py: dataframe_to_arrow.  Arrow types (pa.DataType) as tagged     *)
(* trees; df.to_arrow() maps each polars type to its Arrow type.           *)

RECURSIVE to_arrow_type(_)
to_arrow_type(t) ==
    IF t.k = "Null" THEN [a |-> "null"]
    ELSE IF t.k = "Scalar"
        THEN IF t.kind = "Utf8" THEN [a |-> "large_string"]
             ELSE IF t.kind = "Int64" THEN [a |-> "int64"]
             ELSE [a |-> "timestamp", unit |-> "ns"]
    ELSE IF t.k = "List" THEN [a |-> "large_list", item |-> to_arrow_type(t.inner)]
    ELSE IF t.k = "Array" THEN [a |-> "fixed_size_list", item |-> to_arrow_type(t.elem)]
    ELSE [a |-> "struct",
          fields |-> [i \in 1..Len(t.fields) |->
                        Field(t.fields[i].name, to_arrow_type(t.fields[i].dtype))]]

to_arrow(t) ==
    [i \in 1..Len(t) |-> Column(t[i].name, to_arrow_type(t[i].dtype), t[i].values)]

\* The cast of one nanosecond timestamp to microseconds.
UsV(v) == IF v = NULL THEN NULL ELSE [k |-> "ts_us", us |-> v.ns \div 1000]

\* Top-level nanosecond timestamp columns are cast to microseconds.
dataframe_to_arrow(t) ==
    LET arrow_table == to_arrow(t)
    IN [i \in 1..Len(arrow_table) |->
          LET field == arrow_table[i]
          IN IF field.dtype.a = "timestamp" /\ field.dtype.unit = "ns"
             THEN Column(field.name, [a |-> "timestamp", unit |-> "us"],
                         [r \in 1..Len(field.values) |-> UsV(field.values[r])])
             ELSE field]

\* The rows of an Arrow table, each the tuple of its column values.
Rows(t) == [r \in 1..Height(t) |-> [i \in 1..Len(t) |-> t[i].values[r]]]

----------------------------------------------------------------------------
(* writer.py: write_to_iceberg against the REST catalog.                   *)

Modes == {"overwrite", "append"}

\* What a call on the catalog can raise.
Errors == {"NamespaceAlreadyExistsError", "NoSuchTableError", "ServerError"}

\* The remote state of the target: the namespace, the table, its schema and rows.
Remote(ns, tbl, schema, content) ==
    [namespace |-> ns, table |-> tbl, schema |-> schema, content |-> content]

PriorSchema == <<Field("x", [a |-> "int64"])>>
PriorRow == <<IntV(0)>>

Remotes ==
    {Remote(FALSE, FALSE, <<>>, <<>>), Remote(TRUE, FALSE, <<>>, <<>>),
     Remote(TRUE, TRUE, PriorSchema, <<>>), Remote(TRUE, TRUE, PriorSchema, <<PriorRow>>)}

Call(op, arg, result) == [op |-> op, arg |-> arg, result |-> result]

Init ==
    /\ pc = "start"
    /\ df \in Tables
    /\ mode \in Modes
    /\ sink \in Remotes
    /\ prior = sink
    /\ arrow = NoTable
    /\ ops = <<>>
    /\ default = DEFAULT_TYPE
    /\ dtype = NullType /\ resolved = <<>> /\ out = <<>>
    /\ raw = NULL /\ separator = "." /\ records = <<>> /\ flat = <<>> /\ error = NULL

\* 1. Resolve nulls and convert to Arrow
ResolveAndConvert ==
    /\ pc = "start"
    /\ arrow' = dataframe_to_arrow(resolve_null_types(df, default))
    /\ pc' = "ensure_namespace"
    /\ UNCHANGED <<dtype, default, resolved, df, out, flattenVars, mode, sink, prior, ops>>

\* Variant: ensure_namespace swallows every error.
EnsureNamespaceCatchesAll(e) == e \in Errors

\* except NamespaceAlreadyExistsError
EnsureNamespaceCatches(e) == e = "NamespaceAlreadyExistsError"

\* except NoSuchTableError
LoadTableCatches(e) == e = "NoSuchTableError"

\* catalog.create_namespace(namespace) succeeds.
CreateNamespace ==
    /\ pc = "ensure_namespace"
    /\ ~sink.namespace
    /\ sink' = [sink EXCEPT !.namespace = TRUE]
    /\ ops' = Append(ops, Call("create_namespace", NULL, "ok"))
    /\ pc' = "load_table"
    /\ UNCHANGED <<schemaVars, flattenVars, mode, arrow, prior>>

\* catalog.create_namespace(namespace) raises.
CreateNamespaceRaises ==
    /\ pc = "ensure_namespace"
    /\ \E e \in Errors :
        /\ e = "NamespaceAlreadyExistsError" => sink.namespace
        /\ ops' = Append(ops, Call("create_namespace", NULL, e))
        /\ pc' = IF EnsureNamespaceCatches(e) THEN "load_table" ELSE "failed"
    /\ UNCHANGED <<schemaVars, flattenVars, mode, arrow, sink, prior>>

\* catalog.load_table(table_id) succeeds.
LoadTable ==
    /\ pc = "load_table"
    /\ sink.table
    /\ ops' = Append(ops, Call("load_table", NULL, "ok"))
    /\ pc' = "write"
    /\ UNCHANGED <<schemaVars, flattenVars, mode, arrow, sink, prior>>

\* catalog.load_table(table_id) raises.
LoadTableRaises ==
    /\ pc = "load_table"
    /\ \E e \in Errors :
        /\ e = "NoSuchTableError" => ~sink.table
        /\ ops' = Append(ops, Call("load_table", NULL, e))
        /\ pc' = IF LoadTableCatches(e) THEN "create_table" ELSE "failed"
    /\ UNCHANGED <<schemaVars, flattenVars, mode, arrow, sink, prior>>

\* catalog.create_table(table_id, schema=arrow_table.schema) succeeds.
CreateTable ==
    /\ pc = "create_table"
    /\ sink.namespace /\ ~sink.table
    /\ sink' = [sink EXCEPT !.table = TRUE, !.schema = Schema(arrow), !.content = <<>>]
    /\ ops' = Append(ops, Call("create_table", Schema(arrow), "ok"))
    /\ pc' = "write"
    /\ UNCHANGED <<schemaVars, flattenVars, mode, arrow, prior>>

\* catalog.create_table raises, inside the except clause: nothing catches it.
CreateTableRaises ==
    /\ pc = "create_table"
    /\ \E e \in Errors :
        /\ ops' = Append(ops, Call("create_table", Schema(arrow), e))
        /\ pc' = "failed"
    /\ UNCHANGED <<schemaVars, flattenVars, mode, arrow, sink, prior>>

\* Variant: the branches of the mode test are exchanged.
WriteOpSwapped(m) == IF m = "overwrite" THEN "append" ELSE "overwrite"

\* if mode == "overwrite": table.overwrite(...) else: table.append(...)
WriteOp(m) == IF m = "overwrite" THEN "overwrite" ELSE "append"

\* The committed content after table.overwrite / table.append of rows.
Committed(op, content, rows) == IF op = "overwrite" THEN rows ELSE content \o rows

\* table.overwrite(arrow_table) / table.append(arrow_table) commits.
WriteData ==
    /\ pc = "write"
    /\ sink.table
    /\ sink' = [sink EXCEPT !.content = Committed(WriteOp(mode), sink.content, Rows(arrow))]
    /\ ops' = Append(ops, Call(WriteOp(mode), NULL, "ok"))
    /\ pc' = "done"
    /\ UNCHANGED <<schemaVars, flattenVars, mode, arrow, prior>>

\* table.overwrite / table.append raises: the commit did not happen.
WriteDataRaises ==
    /\ pc = "write"
    /\ \E e \in Errors :
        /\ ops' = Append(ops, Call(WriteOp(mode), NULL, e))
        /\ pc' = "failed"
    /\ UNCHANGED <<schemaVars, flattenVars, mode, arrow, sink, prior>>

Next ==
    \/ ResolveAndConvert
    \/ CreateNamespace
    \/ CreateNamespaceRaises
    \/ LoadTable
    \/ LoadTableRaises
    \/ CreateTable
    \/ CreateTableRaises
    \/ WriteData
    \/ WriteDataRaises

Spec == Init /\ [][Next]_vars

----------------------------------------------------------------------------
(* cli.py: _ingest, load_and_flatten followed by write_to_iceberg.         *)
(* pl.DataFrame(flat_records) infers one column per key, in the order the  *)
(* keys are first seen, and one type per column from its values.           *)

Mismatch == [k |-> "Mismatch"]

RECURSIVE Unify(_, _)
\* The one type of two inferred types, or Mismatch.
Unify(a, b) ==
    IF a = b THEN a
    ELSE IF a.k = "Null" THEN b
    ELSE IF b.k = "Null" THEN a
    ELSE IF a.k = "List" /\ b.k = "List"
        THEN LET u == Unify(a.inner, b.inner)
             IN IF u = Mismatch THEN Mismatch ELSE List(u)
    ELSE IF /\ a.k = "Struct" /\ b.k = "Struct" /\ Len(a.fields) = Len(b.fields)
            /\ \A i \in 1..Len(a.fields) : a.fields[i].name = b.fields[i].name
        THEN LET us == [i \in 1..Len(a.fields) |->
                            Unify(a.fields[i].dtype, b.fields[i].dtype)]
             IN IF \E i \in 1..Len(us) : us[i] = Mismatch THEN Mismatch
                ELSE Struct([i \in 1..Len(us) |-> Field(a.fields[i].name, us[i])])
    ELSE Mismatch

RECURSIVE UnifyAll(_)
UnifyAll(ts) ==
    IF ts = <<>> THEN NullType
    ELSE LET rest == UnifyAll(Tail(ts))
         IN IF rest = Mismatch \/ ts[1] = Mismatch THEN Mismatch ELSE Unify(ts[1], rest)

RECURSIVE InferType(_)
\* The polars type inferred for one JSON value.
InferType(v) ==
    IF v.j = "null" THEN NullType
    ELSE IF v.j = "num" THEN Scalar("Int64")
    ELSE IF v.j = "seq"
        THEN LET u == UnifyAll([i \in 1..Len(v.items) |-> InferType(v.items[i])])
             IN IF u = Mismatch THEN Mismatch ELSE List(u)
    ELSE LET ts == [i \in 1..Len(v.entries) |-> InferType(v.entries[i].value)]
         IN IF \E i \in 1..Len(ts) : ts[i] = Mismatch THEN Mismatch
            ELSE Struct([i \in 1..Len(ts) |-> Field(v.entries[i].key, ts[i])])

RECURSIVE ToCell(_)
\* The row value of one JSON value.
ToCell(v) ==
    IF v.j = "null" THEN NULL
    ELSE IF v.j = "num" THEN IntV(v.n)
    ELSE IF v.j = "seq" THEN ListV([i \in 1..Len(v.items) |-> ToCell(v.items[i])])
    ELSE StructV([i \in 1..Len(v.entries) |-> ToCell(v.entries[i].value)])

RECURSIVE ColumnKeys(_, _)
\* The keys of the flat records, in the order they are first seen.
ColumnKeys(flats, seen) ==
    IF flats = <<>> THEN seen
    ELSE ColumnKeys(Tail(flats),
            seen \o SelectSeq([i \in 1..Len(flats[1]) |-> flats[1][i].key],
                              LAMBDA key : \A i \in 1..Len(seen) : seen[i] # key))

\* flat_record.get(key): the JSON value under key, null when the key is absent.
ValueAt(flatRecord, key) ==
    IF \E i \in 1..Len(flatRecord) : flatRecord[i].key = key
    THEN flatRecord[CHOOSE i \in 1..Len(flatRecord) : flatRecord[i].key = key].value
    ELSE JNull

\* pl.DataFrame(flat_records)
DataFrame(flats) ==
    LET keys == ColumnKeys(flats, <<>>)
    IN [c \in 1..Len(keys) |->
          Column(keys[c],
                 UnifyAll([r \in 1..Len(flats) |-> InferType(ValueAt(flats[r], keys[c]))]),
                 [r \in 1..Len(flats) |-> ToCell(ValueAt(flats[r], keys[c]))])]

InitIngest ==
    /\ pc = "load"
    /\ raw \in Roots
    /\ separator \in Separators
    /\ mode \in Modes
    /\ sink \in Remotes
    /\ prior = sink
    /\ records = <<>> /\ flat = <<>> /\ error = NULL
    /\ df = NoTable /\ arrow = NoTable /\ ops = <<>>
    /\ default = DEFAULT_TYPE
    /\ dtype = NullType /\ resolved = <<>> /\ out = <<>>

\* return pl.DataFrame(flat_records); write_to_iceberg(cfg, df, mode=args.mode)
Assemble ==
    /\ pc = "flattened"
    /\ LET t == DataFrame(flat)
       IN /\ \A c \in 1..Len(t) : t[c].dtype # Mismatch
          /\ df' = t
    /\ pc' = "start"
    /\ UNCHANGED <<dtype, default, resolved, out, flattenVars, writerVars>>

\* pl.DataFrame(flat_records) raises: a column's values have no common type.
AssembleFails ==
    /\ pc = "flattened"
    /\ \E c \in 1..Len(DataFrame(flat)) : DataFrame(flat)[c].dtype = Mismatch
    /\ error' = Raised("PolarsError", <<"no common type">>)
    /\ pc' = "load_failed"
    /\ UNCHANGED <<raw, separator, records, flat, schemaVars, writerVars>>

NextIngest ==
    \/ LoadDetectFails
    \/ LoadFlattenFails
    \/ LoadAndFlatten
    \/ Assemble
    \/ AssembleFails
    \/ ResolveAndConvert
    \/ CreateNamespace
    \/ CreateNamespaceRaises
    \/ LoadTable
    \/ LoadTableRaises
    \/ CreateTable
    \/ CreateTableRaises
    \/ WriteData
    \/ WriteDataRaises

SpecIngest == InitIngest /\ [][NextIngest]_vars

----------------------------------------------------------------------------
(* Properties of the detector and the flattener. *)

\* A non-empty sequence whose first element is a mapping.
Matching(v) == v.j = "seq" /\ Len(v.items) > 0 /\ v.items[1].j = "map"

\* C4: for a mapping root the detector returns the first value, in insertion
\* order, that is a non-empty sequence whose first element is a mapping, whatever
\* follows it; with no such value it returns the root as a one-record sequence.
C4_FirstRecordListWins ==
    (pc \in {"flattened", "load_failed"} /\ raw.j = "map") =>
        LET es == raw.entries
        IN IF \E i \in 1..Len(es) : Matching(es[i].value)
           THEN \E i \in 1..Len(es) :
                    /\ Matching(es[i].value)
                    /\ \A i2 \in 1..(i - 1) : ~Matching(es[i2].value)
                    /\ records = es[i].value.items
           ELSE records = <<raw>>

C4_Witness ==
    /\ pc = "flattened"
    /\ raw.j = "map"
    /\ Len(raw.entries) = 2
    /\ raw.entries[1].value = JSeq(<<JMap(<<>>)>>)
    /\ raw.entries[2].value = JSeq(<<JMap(<<JEntry("a", JNum(1))>>), JNull>>)
    /\ records = <<JMap(<<>>)>>

RECURSIVE LeafPaths(_, _)
\* The leaves of a mapping's entries, depth first in insertion order, each with
\* the path of keys that leads to it.  A leaf is any value that is no mapping.
LeafPaths(entries, path) ==
    IF entries = <<>> THEN <<>>
    ELSE LET e == entries[1]
             here == Append(path, e.key)
         IN (IF e.value.j = "map" THEN LeafPaths(e.value.entries, here)
             ELSE <<[path |-> here, value |-> e.value]>>)
            \o LeafPaths(Tail(entries), path)

RECURSIVE Join(_, _)
\* sep.join(path)
Join(path, sep) ==
    IF Len(path) = 1 THEN path[1]
    ELSE path[1] \o sep \o Join(Tail(path), sep)

ExpectedFlat(record, sep) ==
    LET ls == LeafPaths(record.entries, <<>>)
    IN [i \in 1..Len(ls) |-> JEntry(Join(ls[i].path, sep), ls[i].value)]

\* C5: the flat record holds exactly one key per leaf path, the path's segments
\* joined by the separator, with the leaf's value, in depth-first insertion order;
\* no leaf is lost or overwritten.
C5_OneKeyPerLeaf ==
    pc = "flattened" =>
        \A i \in 1..Len(records) : flat[i] = ExpectedFlat(records[i], separator)

\* What holds of flatten_record for every record: the one-key-per-leaf result,
\* when no mapping-valued key is empty and no two leaf paths join to one key.
C5_OneKeyPerLeafWhenDistinct ==
    pc = "flattened" =>
        \A i \in 1..Len(records) :
            LET ls == LeafPaths(records[i].entries, <<>>)
            IN (/\ \A n \in 1..Len(ls) : \A m \in 1..(Len(ls[n].path) - 1) : ls[n].path[m] # ""
                /\ \A n, m \in 1..Len(ls) :
                      Join(ls[n].path, separator) = Join(ls[m].path, separator) => n = m)
               => flat[i] = ExpectedFlat(records[i], separator)

----------------------------------------------------------------------------
(* Properties of the resolver. *)

RECURSIVE ContainsNull(_)
\* A Null node occurs somewhere in t.
ContainsNull(t) ==
    \/ t.k = "Null"
    \/ t.k = "List" /\ ContainsNull(t.inner)
    \/ t.k = "Array" /\ ContainsNull(t.elem)
    \/ t.k = "Struct" /\ \E i \in 1..Len(t.fields) : ContainsNull(t.fields[i].dtype)

RECURSIVE Recognised(_)
\* t is built from Null, Scalar, List and Struct nodes only.
Recognised(t) ==
    \/ t.k \in {"Null", "Scalar"}
    \/ t.k = "List" /\ Recognised(t.inner)
    \/ t.k = "Struct" /\ \A i \in 1..Len(t.fields) : Recognised(t.fields[i].dtype)

RECURSIVE KeepsConcrete(_, _)
\* r has the shape of t, with every Scalar node of t in place.
KeepsConcrete(t, r) ==
    \/ t.k = "Null"
    \/ t.k = "Scalar" /\ r = t
    \/ t.k = "List" /\ r.k = "List" /\ KeepsConcrete(t.inner, r.inner)
    \/ t.k = "Array" /\ r.k = "Array" /\ KeepsConcrete(t.elem, r.elem)
    \/ /\ t.k = "Struct" /\ r.k = "Struct" /\ Len(r.fields) = Len(t.fields)
       /\ \A i \in 1..Len(t.fields) :
            /\ r.fields[i].name = t.fields[i].name
            /\ KeepsConcrete(t.fields[i].dtype, r.fields[i].dtype)

\* C1: for a tree of Null, Scalar, List and Struct nodes and a concrete default,
\* the resolved tree holds no Null node at any depth; so does every such column
\* type of the table resolve_null_types returns.
C1_NoPlaceholderAfterResolve ==
    /\ (pc \in {"tree_resolved", "tree_done"} /\ Recognised(dtype))
            => ~ContainsNull(resolved[1])
    /\ pc \in {"table_resolved", "table_done"}
            => \A i \in 1..Len(df) :
                    Recognised(df[i].dtype) => ~ContainsNull(out[1].df[i].dtype)

C1_Witness ==
    /\ pc = "tree_resolved"
    /\ dtype = List(Struct(<<Field("a", NullType), Field("b", Scalar("Int64"))>>))
    /\ resolved[1] = List(Struct(<<Field("a", default), Field("b", Scalar("Int64"))>>))

\* C6: a tree holding a node of a kind the resolver does not recognise makes
\* resolution fail with UnsupportedSchemaShape; no tree is returned for it.
C6_UnrecognisedKindFails ==
    (pc = "tree_resolved" /\ ~Recognised(dtype))
        => resolved[1].k = "UnsupportedSchemaShape"

\* C8: resolving a resolved tree returns it unchanged, and resolve_null_types on
\* a resolved table selects no column for casting and returns the table unchanged.
C8_ResolveIdempotent ==
    /\ pc = "tree_done" => resolved[2] = resolved[1]
    /\ pc = "table_done" => out[2].casts = <<>> /\ out[2].df = out[1].df

C8_Witness ==
    /\ pc = "table_done"
    /\ \E i \in 1..Len(df) : df[i].dtype.k = "Struct" /\ ContainsNull(df[i].dtype)
    /\ out[1].casts # <<>>
    /\ out[2].casts = <<>>

\* C10: resolve_null_types casts exactly the columns whose resolved type differs
\* from the original, which are exactly the columns whose type tree contains a
\* Null; every other column and every concrete sibling field keeps its type; row
\* values, row count, column names and column order are unchanged.
C10_TypesOnly ==
    pc = "table_resolved" =>
        LET r == out[1].df
            cast == {out[1].casts[j].name : j \in 1..Len(out[1].casts)}
        IN /\ Len(r) = Len(df)
           /\ cast = {df[i].name : i \in {j \in 1..Len(df) : r[j].dtype # df[j].dtype}}
           /\ cast = {df[i].name : i \in {j \in 1..Len(df) : ContainsNull(df[j].dtype)}}
           /\ \A i \in 1..Len(df) :
                /\ r[i].name = df[i].name
                /\ r[i].values = df[i].values
                /\ KeepsConcrete(df[i].dtype, r[i].dtype)
                /\ df[i].name \notin cast => r[i].dtype = df[i].dtype

\* The part of C10 that holds of the code for every table: the cast columns are
\* those whose resolved type differs, and only declared types change.
C10_FrameOfCasts ==
    pc = "table_resolved" =>
        LET r == out[1].df
            cast == {out[1].casts[j].name : j \in 1..Len(out[1].casts)}
        IN /\ Len(r) = Len(df)
           /\ cast = {df[i].name : i \in {j \in 1..Len(df) : r[j].dtype # df[j].dtype}}
           /\ \A i \in 1..Len(df) :
                /\ r[i].name = df[i].name
                /\ r[i].values = df[i].values
                /\ KeepsConcrete(df[i].dtype, r[i].dtype)
                /\ df[i].name \notin cast => r[i].dtype = df[i].dtype
                /\ Recognised(df[i].dtype) =>
                        (df[i].name \in cast <=> ContainsNull(df[i].dtype))

----------------------------------------------------------------------------
(* Properties of the writer. *)

RECURSIVE ArrowContainsNull(_)
\* The Arrow null type occurs somewhere in the Arrow type t.
ArrowContainsNull(t) ==
    \/ t.a = "null"
    \/ t.a \in {"large_list", "fixed_size_list"} /\ ArrowContainsNull(t.item)
    \/ t.a = "struct" /\ \E i \in 1..Len(t.fields) : ArrowContainsNull(t.fields[i].dtype)

\* C2: whenever create_table is issued, the schema passed holds no placeholder
\* (null) type at any nesting level, whatever table write_to_iceberg was handed.
C2_CreateWithResolvedSchema ==
    \A i \in 1..Len(ops) :
        ops[i].op = "create_table" =>
            \A f \in 1..Len(ops[i].arg) : ~ArrowContainsNull(ops[i].arg[f].dtype)

\* What holds of the writer for every table: the schema passed to create_table
\* has no null type in any column whose type the resolver recognises throughout.
C2_ResolvedWhereRecognised ==
    \A i \in 1..Len(ops) :
        ops[i].op = "create_table" =>
            /\ Len(ops[i].arg) = Len(df)
            /\ \A f \in 1..Len(df) :
                Recognised(df[f].dtype) => ~ArrowContainsNull(ops[i].arg[f].dtype)

\* C3: a failed invocation leaves the remote state of the target (namespace,
\* table, content) as it was when the invocation started.
C3_FailureLeavesRemoteUnchanged ==
    pc = "failed" => sink = prior

\* What holds of the writer: a failed invocation never changes the content of a
\* table that existed when it started.
C3_FailureKeepsPriorContent ==
    (pc = "failed" /\ prior.table) => sink.content = prior.content

Absorbed(c) ==
    \/ c.op = "create_namespace" /\ c.result = "NamespaceAlreadyExistsError"
    \/ c.op = "load_table" /\ c.result = "NoSuchTableError"

\* C7: NamespaceAlreadyExists at namespace-create and NoSuchTable at table-load
\* are absorbed (the sequence goes on to table-load, resp. table-create); every
\* other error of a sink call ends the invocation as failed, with no later sink
\* call and no call issued twice.
C7_OnlyTwoErrorsAbsorbed ==
    /\ \A i \in 1..Len(ops) :
        LET c == ops[i]
            continuesWith(op, at) ==
                IF i = Len(ops) THEN pc = at ELSE ops[i + 1].op = op
        IN /\ (c.result # "ok" /\ ~Absorbed(c)) => (i = Len(ops) /\ pc = "failed")
           /\ (c.op = "create_namespace" /\ c.result = "NamespaceAlreadyExistsError")
                => continuesWith("load_table", "load_table")
           /\ (c.op = "load_table" /\ c.result = "NoSuchTableError")
                => continuesWith("create_table", "create_table")
    /\ \A i, i2 \in 1..Len(ops) : ops[i].op = ops[i2].op => i = i2
    /\ pc = "failed" =>
        /\ ops # <<>>
        /\ ops[Len(ops)].result \in Errors
        /\ ~Absorbed(ops[Len(ops)])

C7_Witness ==
    /\ pc = "failed"
    /\ Len(ops) = 3
    /\ ops[1] = Call("create_namespace", NULL, "NamespaceAlreadyExistsError")
    /\ ops[2] = Call("load_table", NULL, "NoSuchTableError")
    /\ ops[3].op = "create_table" /\ ops[3].result = "NoSuchTableError"

\* C9: after a successful invocation the table holds exactly the supplied rows in
\* overwrite mode, and the prior rows followed by the supplied rows in append
\* mode; exactly one write was issued, the one the mode selects, after
\* namespace-create and table-load (and table-create, when the table was missing).
C9_WriteModes ==
    pc = "done" =>
        LET n == Len(ops)
            writes == {i \in 1..n : ops[i].op \in {"overwrite", "append"}}
        IN /\ Len(Rows(arrow)) = Height(df)
           /\ mode = "overwrite" => sink.content = Rows(arrow)
           /\ mode = "append" => sink.content = prior.content \o Rows(arrow)
           /\ writes = {n}
           /\ ops[n].op = mode /\ ops[n].result = "ok"
           /\ n \in {3, 4}
           /\ ops[1].op = "create_namespace"
           /\ ops[2].op = "load_table"
           /\ n = 4 => ops[3].op = "create_table" /\ ops[3].result = "ok"

C9_Witness ==
    /\ pc = "done"
    /\ mode = "overwrite"
    /\ prior.content = <<PriorRow>>
    /\ Height(df) = 1
    /\ sink.content = Rows(arrow)
    /\ \A r \in 1..Len(sink.content) : sink.content[r] # PriorRow

\* C11: a root that is neither a sequence nor a mapping makes the detector fail
\* with an error that names the root's type, and the invocation ends there with
\* no sink call; no sink call is issued in any invocation in which detection,
\* flattening or assembly/resolution failed.
C11_LoadFailureIssuesNoSinkCall ==
    /\ (raw.j \notin {"seq", "map"} /\ pc # "load") =>
            /\ pc = "load_failed"
            /\ error.type = "ValueError"
            /\ error.message[Len(error.message)] =
                    (IF raw.j = "null" THEN "NoneType" ELSE "int")
    /\ pc = "load_failed" => (ops = <<>> /\ sink = prior)
    /\ error # NULL => (pc = "load_failed" /\ ops = <<>>)
    /\ ops # <<>> => (error = NULL /\ raw.j \in {"seq", "map"})

C11_Witness ==
    /\ pc = "load_failed"
    /\ raw = JNum(1)
    /\ error = Raised("ValueError", <<"Unexpected JSON root type: ", "int">>)
    /\ ops = <<>>

====
